---- MODULE Spec2Model ----
(***************************************************************************)
(* VibeMatch recommendation engine: vibematch/src/preprocess.py,           *)
(* vibematch/src/models.py and vibematch/src/recommender.py.               *)
(*                                                                         *)
(* A table (pandas DataFrame) is a record                                  *)
(*   [columns |-> set of column names,                                     *)
(*    objcols |-> the columns of object (string) dtype,                    *)
(*    rows    |-> sequence of row records].                                *)
(* A row record holds one field per column, the field "index" (the pandas  *)
(* index label), the field "na" (the set of columns whose cell is missing, *)
(* NaN) and the ghost field "line" (the data line of the CSV file the row  *)
(* was read from; no code reads it).  A string is a sequence of            *)
(* one-character strings.                                                  *)
(*                                                                         *)
(* Numbers.  With m fitted rows, StandardScaler stores for every feature f *)
(* mean_ = sum[f] / m and scale_ = sqrt(W[f]) / m, where W[f] is           *)
(* m * sum(x^2) - sum(x)^2, or m^2 when that is 0 (sklearn replaces a zero *)
(* scale by 1).  A raw query value is kept as its numerator over the       *)
(* denominator m, a standardized value z as the pair <<c, W[f]>> with      *)
(* z = c / sqrt(W[f]), and a distance d (Euclidean, over standardized      *)
(* vectors) as the integer d^2 * PROD_f W[f], which orders the rows of one *)
(* engine exactly as d does.                                               *)
(***************************************************************************)
EXTENDS Integers, Sequences, FiniteSets, TLC

\* ---------------------------------------------------------------- bounds
\* Largest number of data lines of the CSV file.
MaxRows == 2
\* Largest requested count n of a query.
MaxN == 2
\* Largest number of sessions that query one engine at the same time.
MaxSessions == 2

\* ---------------------------------------------------------------- config.py
ID_COL_TRACK_NAME == "track_name"
ID_COL_ARTISTS == "artists"
ID_COL_GENRE == "track_genre"
DEFAULT_N_NEIGHBORS == 30
\* Headroom of the neighbor pool: pool_size = max(DEFAULT_N_NEIGHBORS, n + 5).
PoolHeadroom == 5

\* The feature list the engine is built with (from_csv's feature_columns).
FEATURE_COLUMNS == <<"energy", "valence", "tempo">>

Range(s) == {s[i] : i \in 1..Len(s)}
FeatureSet == Range(FEATURE_COLUMNS)
IdCols == {ID_COL_TRACK_NAME, ID_COL_ARTISTS, ID_COL_GENRE}
AllColumns == IdCols \cup FeatureSet

Min2(a, b) == IF a <= b THEN a ELSE b
Max2(a, b) == IF a >= b THEN a ELSE b

\* ---------------------------------------------------------------- strings
\* str.lower() on one character.
LowerChar(c) ==
    CASE c = "A" -> "a"
      [] c = "X" -> "x"
      [] c = "P" -> "p"
      [] OTHER -> c

\* str.lower(): every character lowered, length kept.
Lower(s) == [i \in 1..Len(s) |-> LowerChar(s[i])]

\* str(v) of a cell: a missing cell (float NaN) prints as "nan".
Str(row, col) == IF col \in row.na THEN <<"n", "a", "n">> ELSE row[col]

\* The cell as pandas compares it in drop_duplicates: missing cells are equal
\* to each other and to nothing else.
Cell(row, col) == <<col \in row.na, row[col]>>

\* ---------------------------------------------------------------- input files
Track(name, artists, energy, valence, tempo, na) ==
    [track_name |-> name, artists |-> artists, track_genre |-> <<"g">>,
     energy |-> energy, valence |-> valence, tempo |-> tempo, na |-> na]

\* The lines a CSV file is made of.
RowPool ==
    { Track(<<"a">>, <<"x", "y">>, 0, 0, 0, {}),
      Track(<<"a">>, <<"x", "y">>, 1, 1, 0, {}),
      Track(<<"A">>, <<"P", "q">>, 1, 0, 1, {}),
      Track(<<"a">>, <<>>, 0, 1, 1, {ID_COL_ARTISTS}),
      Track(<<"b">>, <<"x", "y">>, 0, 0, 0, {"energy"}) }

\* The header lines a CSV file may have: every column, no identity column,
\* one feature column short, two feature columns short.
ColumnSets ==
    {AllColumns, FeatureSet, AllColumns \ {"tempo"}, AllColumns \ {"valence", "tempo"}}

\* A line of a file with the given header: cells of absent columns are blank.
Blank(col) == IF col \in {"energy", "valence", "tempo"} THEN 0 ELSE <<>>
Project(line, cols) ==
    [f \in DOMAIN line |->
        IF f = "na" THEN line.na \cap cols
        ELSE IF f \in cols THEN line[f] ELSE Blank(f)]

CsvFiles ==
    UNION { { [columns |-> cols, lines |-> [i \in 1..len |-> Project(ls[i], cols)]]
              : ls \in [1..len -> RowPool] }
            : <<cols, len>> \in ColumnSets \X (1..MaxRows) }

\* ---------------------------------------------------------------- preprocess.py
\* pd.read_csv: rows labelled 0..len-1 in file order; an identity column is of
\* object dtype when at least one of its cells holds a string, and of float
\* dtype (all NaN) otherwise.
load_dataset(csv) ==
    [columns |-> csv.columns,
     objcols |-> {c \in IdCols \cap csv.columns :
                    \E i \in 1..Len(csv.lines) : c \notin csv.lines[i].na},
     rows |-> [i \in 1..Len(csv.lines) |->
                 [f \in DOMAIN csv.lines[i] \cup {"index", "line"} |->
                    IF f \in {"index", "line"} THEN i - 1 ELSE csv.lines[i][f]]]]

HasNoMissingFeature(row, cols) == \A c \in cols : c \notin row.na

\* No table: what a call that raised hands back.
NoTable == [columns |-> {}, objcols |-> {}, rows |-> <<>>]

\* clean_and_select_features with dropna() given no subset: a row with any
\* missing cell is dropped.
clean_and_select_features_dropna_any(df, feature_columns) ==
    LET existing == {c \in Range(feature_columns) : c \in df.columns}
        missing == Range(feature_columns) \ existing
        Keep(row) == row.na = {}
    IN  IF missing # {}
        THEN [raised |-> "ValueError", missing |-> missing, df |-> NoTable, raw |-> df]
        ELSE [raised |-> "none", missing |-> {},
              df |-> [df EXCEPT !.rows = SelectSeq(df.rows, Keep)], raw |-> df]

\* clean_and_select_features without the test of the header: the absent
\* feature columns are passed over.
clean_and_select_features_absent_ignored(df, feature_columns) ==
    LET existing == {c \in Range(feature_columns) : c \in df.columns}
        Keep(row) == HasNoMissingFeature(row, existing)
    IN  [raised |-> "none", missing |-> {},
         df |-> [df EXCEPT !.rows = SelectSeq(df.rows, Keep)], raw |-> df]

\* Raises ValueError naming the absent feature columns; otherwise a new table
\* of the rows with every feature present, in order, index labels kept
\* (dropna(subset=existing).copy()).  raw is the caller's table after the call.
clean_and_select_features(df, feature_columns) ==
    LET existing == {c \in Range(feature_columns) : c \in df.columns}
        missing == Range(feature_columns) \ existing
        Keep(row) == HasNoMissingFeature(row, existing)
    IN  IF missing # {}
        THEN [raised |-> "ValueError", missing |-> missing, df |-> NoTable, raw |-> df]
        ELSE [raised |-> "none", missing |-> {},
              df |-> [df EXCEPT !.rows = SelectSeq(df.rows, Keep)], raw |-> df]

RECURSIVE SumSeq(_)
SumSeq(s) == IF s = <<>> THEN 0 ELSE Head(s) + SumSeq(Tail(s))

RECURSIVE ToSeq(_, _)
\* The tuple <<f[1], ..., f[n]>> of a function on 1..n, every element computed.
ToSeq(f, n) == IF n = 0 THEN <<>> ELSE Append(ToSeq(f, n - 1), f[n])

\* df[feature_columns].values: one vector per row, by position.
FeatureValues(df, feature_columns) ==
    ToSeq([i \in 1..Len(df.rows) |->
             ToSeq([j \in 1..Len(feature_columns) |-> df.rows[i][feature_columns[j]]],
                   Len(feature_columns))],
          Len(df.rows))

\* StandardScaler().fit(X): per-column mean and scale (see the header).
StandardScalerFit(X) ==
    LET m == Len(X)
        d == Len(X[1])
        Col(j) == [i \in 1..m |-> X[i][j]]
        Sq(j) == [i \in 1..m |-> X[i][j] * X[i][j]]
        V(j) == m * SumSeq(Sq(j)) - SumSeq(Col(j)) * SumSeq(Col(j))
    IN  [n |-> m,
         sum |-> [j \in 1..d |-> SumSeq(Col(j))],
         W |-> [j \in 1..d |-> IF V(j) = 0 THEN m * m ELSE V(j)]]

\* scaler.transform(v) of one vector of numerators over the denominator
\* scaler.n: (v - mean_) / scale_ = (num - sum) / sqrt(W).
Transform(scaler, nums) ==
    ToSeq([j \in 1..Len(nums) |-> <<nums[j] - scaler.sum[j], scaler.W[j]>>], Len(nums))

\* A catalog value x as a numerator over scaler.n.
OverN(scaler, vec) == ToSeq([j \in 1..Len(vec) |-> vec[j] * scaler.n], Len(vec))

NoScaler == [n |-> 0, sum |-> <<>>, W |-> <<>>]

\* Fits a new scaler when none is given (fails on an empty table), and
\* transforms the feature values of every row, in row order.
scale_features(df, feature_columns, given) ==
    LET X == FeatureValues(df, feature_columns)
    IN  IF given = NoScaler /\ Len(X) = 0
        THEN [raised |-> "ValueError", X_scaled |-> <<>>, scaler |-> NoScaler]
        ELSE LET scaler == IF given = NoScaler THEN StandardScalerFit(X) ELSE given
             IN  [raised |-> "none",
                  X_scaled |-> [i \in 1..Len(X) |-> Transform(scaler, OverN(scaler, X[i]))],
                  scaler |-> scaler]

\* The index labels left as dropna left them.
reset_index_skipped(df) == df

\* df.reset_index(drop=True): labels 0..len-1 in row order.
reset_index(df) ==
    [df EXCEPT !.rows = [i \in 1..Len(df.rows) |-> [df.rows[i] EXCEPT !.index = i - 1]]]

\* load, clean, scale; the cleaned table is re-labelled densely.
preprocess_pipeline(csv, feature_columns) ==
    LET raw_df == load_dataset(csv)
        clean == clean_and_select_features(raw_df, feature_columns)
        scaled == scale_features(clean.df, feature_columns, NoScaler)
    IN  IF clean.raised # "none"
        THEN [raised |-> clean.raised, df |-> raw_df, X_scaled |-> <<>>,
              scaler |-> NoScaler, feature_columns |-> feature_columns]
        ELSE IF scaled.raised # "none"
        THEN [raised |-> scaled.raised, df |-> raw_df, X_scaled |-> <<>>,
              scaler |-> NoScaler, feature_columns |-> feature_columns]
        ELSE [raised |-> "none", df |-> reset_index(clean.df),
              X_scaled |-> scaled.X_scaled, scaler |-> scaled.scaler,
              feature_columns |-> feature_columns]

\* ---------------------------------------------------------------- models.py
RECURSIVE ProdW(_, _, _)
\* The product of the W of every coordinate of x but coordinate j.
ProdW(x, j, g) ==
    IF g > Len(x) THEN 1
    ELSE (IF g = j THEN 1 ELSE x[g][2]) * ProdW(x, j, g + 1)

\* Euclidean distance of two standardized vectors (squared, times PROD W).
Distance(x, q) ==
    SumSeq([j \in 1..Len(x) |->
              (x[j][1] - q[j][1]) * (x[j][1] - q[j][1]) * ProdW(x, j, 1)])

\* The numeric library builds a process may run on.  A build fixes what the
\* code leaves open: among rows at equal distance the lower position comes
\* first, or the higher one (kneighbors, the unstable sort of sort_values), and
\* the permutation drawn from random_state=0 is the identity or the reversal.
NumLibs == {"lower", "higher"}

\* The positions of S in ascending order of key, ties by the policy.
RECURSIVE Ordered(_, _, _)
Ordered(S, key, tie) ==
    IF S = {} THEN <<>>
    ELSE LET first == CHOOSE i \in S : \A j \in S \ {i} :
                        \/ key[i] < key[j]
                        \/ key[i] = key[j] /\ (IF tie = "lower" THEN i < j ELSE i > j)
         IN  <<first>> \o Ordered(S \ {first}, key, tie)

\* The fits KMeans may end in, as the rows whose vectors are the centers.
\* With one cluster the center is the mean of the standardized rows, the zero
\* vector, and no row is chosen; with more, cluster_centers_ are taken to be
\* n_clusters of the fitted vectors (any choice, in row order).
KMeansOutcomes(X_scaled, n_clusters) ==
    IF n_clusters = 1 THEN {{}}
    ELSE {S \in SUBSET (1..Len(X_scaled)) : Cardinality(S) = n_clusters}

ZeroVector(X_scaled) == ToSeq([j \in 1..Len(X_scaled[1]) |-> <<0, X_scaled[1][j][2]>>],
                              Len(X_scaled[1]))

\* kmeans.predict(v): the index of the closest center, the lowest on a tie.
Predict(kmeans, v) ==
    CHOOSE c \in 0..(Len(kmeans.cluster_centers) - 1) :
        \A e \in 0..(Len(kmeans.cluster_centers) - 1) :
            \/ Distance(kmeans.cluster_centers[c + 1], v)
                 < Distance(kmeans.cluster_centers[e + 1], v)
            \/ /\ Distance(kmeans.cluster_centers[c + 1], v)
                    = Distance(kmeans.cluster_centers[e + 1], v)
               /\ c <= e

\* fit with the neighbor count taken as requested.
fit_uncapped(X_scaled, n_clusters, n_neighbors, centers, tie) ==
    IF Len(X_scaled) < n_clusters
    THEN [raised |-> "ValueError", kmeans |-> [cluster_centers |-> <<>>],
          knn |-> [n_neighbors |-> 0, fit_X |-> <<>>, tie |-> tie]]
    ELSE [raised |-> "none",
          kmeans |-> [cluster_centers |->
                        IF n_clusters = 1 THEN <<ZeroVector(X_scaled)>>
                        ELSE [c \in 1..n_clusters |->
                                X_scaled[Ordered(centers, [i \in centers |-> i], "lower")[c]]]],
          knn |-> [n_neighbors |-> n_neighbors, fit_X |-> X_scaled, tie |-> tie]]

\* KMeans raises ValueError when there are fewer rows than clusters; the
\* neighbor count is capped to the row count.
fit(X_scaled, n_clusters, n_neighbors, centers, tie) ==
    IF Len(X_scaled) < n_clusters
    THEN [raised |-> "ValueError", kmeans |-> [cluster_centers |-> <<>>],
          knn |-> [n_neighbors |-> 0, fit_X |-> <<>>, tie |-> tie]]
    ELSE [raised |-> "none",
          kmeans |-> [cluster_centers |->
                        IF n_clusters = 1 THEN <<ZeroVector(X_scaled)>>
                        ELSE [c \in 1..n_clusters |->
                                X_scaled[Ordered(centers, [i \in centers |-> i], "lower")[c]]]],
          knn |-> [n_neighbors |-> Min2(n_neighbors, Len(X_scaled)),
                   fit_X |-> X_scaled, tie |-> tie]]

assign_clusters(models, X_scaled) ==
    [i \in 1..Len(X_scaled) |-> Predict(models.kmeans, X_scaled[i])]

\* knn.kneighbors(q, k): the k fitted rows closest to q, ascending distance;
\* indices are 0-based row positions of the fitted matrix.  ValueError unless
\* 0 < k <= number of fitted rows.
kneighbors(knn, query_vector, k) ==
    LET m == Len(knn.fit_X)
        dist == ToSeq([i \in 1..m |-> Distance(knn.fit_X[i], query_vector)], m)
        order == SubSeq(Ordered(1..m, dist, knn.tie), 1, k)
    IN  IF k <= 0 \/ k > m
        THEN [raised |-> "ValueError", distances |-> <<>>, indices |-> <<>>]
        ELSE [raised |-> "none",
              distances |-> ToSeq([p \in 1..Len(order) |-> dist[order[p]]], Len(order)),
              indices |-> ToSeq([p \in 1..Len(order) |-> order[p] - 1], Len(order))]

\* query_neighbors with the fit-time cap forgotten for the default pool.
query_neighbors_one_short(models, X_scaled, query_vector, n_neighbors) ==
    kneighbors(models.knn, query_vector,
               Max2(0, Min2(n_neighbors, models.knn.n_neighbors) - 1))

query_neighbors(models, X_scaled, query_vector, n_neighbors) ==
    LET k == Min2(n_neighbors, models.knn.n_neighbors)
    IN  kneighbors(models.knn, query_vector, k)

\* ---------------------------------------------------------------- recommender.py
VARIABLES
    csv,      \* the CSV file from_csv is given
    numlib,   \* the numeric library build of the process
    pc,       \* "start", "ready" (from_csv returned an engine) or "failed"
    fit_args, \* the n_clusters and n_neighbors from_csv was called with, and the
              \* outcome of its KMeans fit
    self,     \* the VibeRecommender instance (NoEngine before it is built)
    build,    \* the locals of the construction (from_csv, preprocess_pipeline)
    sessions, \* per session of the front end: the query it is in, the locals
              \* of that query and its result
    call,     \* the query that has just run, with its arguments
    ret,      \* what that query returned or raised
    trace     \* ghost: the intermediate values of that query

vars == <<csv, numlib, pc, fit_args, self, build, sessions, call, ret, trace>>

NoEngine ==
    [df |-> [columns |-> {}, objcols |-> {}, rows |-> <<>>], X_scaled |-> <<>>,
     feature_columns |-> <<>>,
     models |-> [kmeans |-> [cluster_centers |-> <<>>],
                 knn |-> [n_neighbors |-> 0, fit_X |-> <<>>, tie |-> "lower"]],
     scaler |-> NoScaler]

\* df_with_clusters["mood_cluster"] = clusters: assigned by position.
WithClusters(df, clusters) ==
    [columns |-> df.columns \cup {"mood_cluster"},
     objcols |-> df.objcols,
     rows |-> [i \in 1..Len(df.rows) |->
                 [f \in DOMAIN df.rows[i] \cup {"mood_cluster"} |->
                    IF f = "mood_cluster" THEN clusters[i] ELSE df.rows[i][f]]]]

\* centers and tie are what the fit leaves to the library.
from_csv(csv_path, feature_columns, n_clusters, n_neighbors, centers, tie) ==
    LET prep == preprocess_pipeline(csv_path, feature_columns)
        models == fit(prep.X_scaled, n_clusters, n_neighbors, centers, tie)
    IN  IF prep.raised # "none" THEN [raised |-> prep.raised, engine |-> NoEngine]
        ELSE IF models.raised # "none" THEN [raised |-> models.raised, engine |-> NoEngine]
        ELSE [raised |-> "none",
              engine |->
                [df |-> WithClusters(prep.df, assign_clusters(models, prep.X_scaled)),
                 X_scaled |-> prep.X_scaled,
                 feature_columns |-> prep.feature_columns,
                 models |-> [kmeans |-> models.kmeans, knn |-> models.knn],
                 scaler |-> prep.scaler]]

\* ---------- internal helpers ----------

\* Index labels of the rows whose name equals track_name, case-insensitively;
\* a missing name equals nothing.  KeyError without the column, AttributeError
\* (.str) when the column holds no string.
_get_track_indices_by_name(engine, track_name) ==
    IF ID_COL_TRACK_NAME \notin engine.df.columns
    THEN [raised |-> "KeyError", indices |-> <<>>]
    ELSE IF ID_COL_TRACK_NAME \notin engine.df.objcols
    THEN [raised |-> "AttributeError", indices |-> <<>>]
    ELSE LET Match(row) == /\ ID_COL_TRACK_NAME \notin row.na
                           /\ Lower(row[ID_COL_TRACK_NAME]) = Lower(track_name)
             hits == SelectSeq(engine.df.rows, Match)
         IN  [raised |-> "none", indices |-> [i \in 1..Len(hits) |-> hits[i].index]]

\* df[feature_columns].mean(): per feature <<sum, count>> over the catalog.
FeatureMeans(df, feature_columns) ==
    ToSeq([j \in 1..Len(feature_columns) |->
             <<SumSeq([i \in 1..Len(df.rows) |-> df.rows[i][feature_columns[j]]]),
               Len(df.rows)>>],
          Len(feature_columns))

\* The raw vector with every override clamped to [0, 1].
RawMoodVectorClamped(engine, overrides) ==
    LET base == FeatureMeans(engine.df, engine.feature_columns)
    IN  ToSeq([j \in 1..Len(engine.feature_columns) |->
                 IF engine.feature_columns[j] \in DOMAIN overrides
                 THEN <<Max2(0, Min2(1, overrides[engine.feature_columns[j]])), 1>>
                 ELSE base[j]],
              Len(engine.feature_columns))

\* base.update(overrides); [base[col] for col in feature_columns]: the raw
\* vector, every entry a fraction <<numerator, denominator>>.
RawMoodVector(engine, overrides) ==
    LET base == FeatureMeans(engine.df, engine.feature_columns)
    IN  ToSeq([j \in 1..Len(engine.feature_columns) |->
                 IF engine.feature_columns[j] \in DOMAIN overrides
                 THEN <<overrides[engine.feature_columns[j]], 1>>
                 ELSE base[j]],
              Len(engine.feature_columns))

\* The fraction as a numerator over scaler.n (the division is exact: a
\* denominator is 1 or the row count).
FractionOverN(scaler, frac) == (frac[1] * scaler.n) \div frac[2]

_build_mood_vector(engine, overrides) ==
    LET raw_vec == RawMoodVector(engine, overrides)
    IN  Transform(engine.scaler,
                  [j \in 1..Len(raw_vec) |-> FractionOverN(engine.scaler, raw_vec[j])])

NoIndex == -1

\* df.iloc[i] (position) with the distance column added.
WithDistance(row, d) ==
    [f \in DOMAIN row \cup {"distance"} |-> IF f = "distance" THEN d ELSE row[f]]

\* Up to n nearest rows by position, the excluded index skipped.  (The
\* entry points ask for n >= DEFAULT_N_NEIGHBORS rows of an engine fitted on
\* at least one row with a positive neighbor count: kneighbors does not fail.)
\* _recommend_from_vector with the test of exclude_index left out.
_recommend_from_vector_keeping_seed(engine, query_vec, n, exclude_index) ==
    LET nb == query_neighbors(engine.models, engine.X_scaled, query_vec, n)
        taken == Min2(n, Len(nb.indices))
    IN  ToSeq([p \in 1..taken |->
                 WithDistance(engine.df.rows[nb.indices[p] + 1], nb.distances[p])],
              taken)

_recommend_from_vector(engine, query_vec, n, exclude_index) ==
    LET nb == query_neighbors(engine.models, engine.X_scaled, query_vec, n)
        Kept(p) == ~(exclude_index # NoIndex /\ nb.indices[p] = exclude_index)
        keptPos == SelectSeq([p \in 1..Len(nb.indices) |-> p], Kept)
        taken == SubSeq(keptPos, 1, Min2(n, Len(keptPos)))
    IN  ToSeq([p \in 1..Len(taken) |->
                 WithDistance(engine.df.rows[nb.indices[taken[p]] + 1],
                              nb.distances[taken[p]])],
              Len(taken))

\* recs.columns of a pool: the catalog's columns and "distance".
PoolColumns(engine) == engine.df.columns \cup {"distance"}

\* sort_values with ascending=False.
sort_values_descending(rows, lib) ==
    LET order == Ordered(1..Len(rows), [i \in 1..Len(rows) |-> 0 - rows[i].distance], lib)
    IN  ToSeq([p \in 1..Len(rows) |-> rows[order[p]]], Len(rows))

\* work.sort_values("distance"): ascending; rows at equal distance in the
\* order the build's sort leaves them.
sort_values(rows, lib) ==
    LET order == Ordered(1..Len(rows), [i \in 1..Len(rows) |-> rows[i].distance], lib)
    IN  ToSeq([p \in 1..Len(rows) |-> rows[order[p]]], Len(rows))

PairKey(row) == <<Cell(row, ID_COL_TRACK_NAME), Cell(row, ID_COL_ARTISTS)>>

\* drop_duplicates with keep="last".
drop_duplicates_keep_last(rows) ==
    LET Last(p) == \A q \in (p + 1)..Len(rows) : PairKey(rows[q]) # PairKey(rows[p])
        keep == SelectSeq([p \in 1..Len(rows) |-> p], Last)
    IN  ToSeq([p \in 1..Len(keep) |-> rows[keep[p]]], Len(keep))

\* drop_duplicates(subset=[name, artists], keep="first").
drop_duplicates(rows) ==
    LET First(p) == \A q \in 1..(p - 1) : PairKey(rows[q]) # PairKey(rows[p])
        keep == SelectSeq([p \in 1..Len(rows) |-> p], First)
    IN  ToSeq([p \in 1..Len(keep) |-> rows[keep[p]]], Len(keep))

\* head with the count ignored.
head_untruncated(rows, n) == rows

\* DataFrame.head(n): the first n rows; all but the last -n for a negative n.
head(rows, n) ==
    IF n >= 0 THEN SubSeq(rows, 1, Min2(n, Len(rows)))
    ELSE SubSeq(rows, 1, Max2(0, Len(rows) + n))

NoSeedKey == <<>>

\* Drops the rows equal to the seed key in name and artist (a missing cell
\* equals no string), de-duplicates by (name, artist) keeping the closest when
\* both columns exist, keeps the first n.
_dedupe_recommendations(columns, recs, n, seed_key, lib) ==
    LET NotSeed(row) ==
            ~( /\ ID_COL_TRACK_NAME \notin row.na
               /\ row[ID_COL_TRACK_NAME] = seed_key[1]
               /\ ID_COL_ARTISTS \notin row.na
               /\ row[ID_COL_ARTISTS] = seed_key[2] )
        work1 == IF seed_key # NoSeedKey THEN SelectSeq(recs, NotSeed) ELSE recs
        work2 == IF ID_COL_TRACK_NAME \in columns /\ ID_COL_ARTISTS \in columns
                 THEN drop_duplicates(sort_values(work1, lib))
                 ELSE work1
    IN  IF seed_key # NoSeedKey
           /\ (ID_COL_TRACK_NAME \notin columns \/ ID_COL_ARTISTS \notin columns)
        THEN [raised |-> "KeyError", recs |-> <<>>]
        ELSE [raised |-> "none", recs |-> head(work2, n)]

\* ---------- public API ----------

\* The rows labelled by the given index labels, in the order of the labels.
Loc(df, labels) ==
    [p \in 1..Len(labels) |->
        df.rows[CHOOSE i \in 1..Len(df.rows) : df.rows[i].index = labels[p]]]

\* A pattern re.compile accepts: no unbalanced parenthesis.
RegexValid(pat) == \A k \in 1..Len(pat) : pat[k] # "("

\* re.search(pat, s, re.IGNORECASE): pat matches at some position of s, a
\* "." matching any character and any other character itself in either case.
RegexSearch(pat, s) ==
    \E start \in 1..(Len(s) - Len(pat) + 1) :
        \A k \in 1..Len(pat) :
            \/ pat[k] = "."
            \/ LowerChar(pat[k]) = LowerChar(s[start + k - 1])

\* Series.str.contains(pat, case=False, na=False) on one cell (regex=True is
\* the default): a missing cell does not match.
str_contains(row, col, pat) == col \notin row.na /\ RegexSearch(pat, row[col])

NoHint == <<>>
NoRow == <<>>

Raised(kind) ==
    [raised |-> kind, seed_row |-> NoRow, recs |-> <<>>,
     indices |-> <<>>, seed_idx |-> NoIndex, seed_vec |-> <<>>, pool |-> <<>>,
     seed_key |-> NoSeedKey, neighbors |-> <<>>]

PoolSize(n) == Max2(DEFAULT_N_NEIGHBORS, n + PoolHeadroom)

\* A seed resolution that stopped before a seed was chosen.
StoppedSeed(kind, indices) ==
    [raised |-> kind, indices |-> indices, seed_idx |-> NoIndex,
     seed_row |-> NoRow, seed_vec |-> <<>>]

\* Lines 180-193: the first match whose artist contains the hint, else the
\* first match.
PickSeed(engine, indices, artist_hint) ==
    LET Hit(row) == str_contains(row, ID_COL_ARTISTS, artist_hint)
        filtered == SelectSeq(Loc(engine.df, indices), Hit)
    IN  IF artist_hint # NoHint /\ filtered # <<>> THEN filtered[1].index
        ELSE indices[1]

\* Lines 195-196: self.df.loc[seed_idx] (by label) and
\* self.X_scaled[seed_idx] (by position).
SeedAt(engine, indices, seed_idx) ==
    IF \A i \in 1..Len(engine.df.rows) : engine.df.rows[i].index # seed_idx
    THEN StoppedSeed("KeyError", indices)
    ELSE IF (seed_idx + 1) \notin 1..Len(engine.X_scaled)
    THEN StoppedSeed("IndexError", indices)
    ELSE [raised |-> "none", indices |-> indices, seed_idx |-> seed_idx,
          seed_row |-> <<Loc(engine.df, <<seed_idx>>)[1]>>,
          seed_vec |-> engine.X_scaled[seed_idx + 1]]

\* Lines 176-196 on the matches found by name.
SeedAmong(engine, found, artist_hint) ==
    LET hintRaises ==
            IF artist_hint = NoHint THEN "none"
            ELSE IF ID_COL_ARTISTS \notin engine.df.columns THEN "KeyError"
            ELSE IF ID_COL_ARTISTS \notin engine.df.objcols THEN "AttributeError"
            ELSE IF ~RegexValid(artist_hint) THEN "re.error"
            ELSE "none"
    IN  IF found.raised # "none" THEN StoppedSeed(found.raised, found.indices)
        ELSE IF found.indices = <<>> THEN StoppedSeed("none", found.indices)
        ELSE IF hintRaises # "none" THEN StoppedSeed(hintRaises, found.indices)
        ELSE SeedAt(engine, found.indices,
                    PickSeed(engine, found.indices, artist_hint))

\* Lines 175-196 of recommend_by_track: the name matches, the seed among
\* them (the first whose artist matches the hint, else the first), its row
\* and its standardized vector.
ResolveSeed(engine, track_name, artist_hint) ==
    SeedAmong(engine, _get_track_indices_by_name(engine, track_name), artist_hint)

\* str(seed_row[name]), str(seed_row[artists]).
SeedKey(seed_row) == <<Str(seed_row, ID_COL_TRACK_NAME), Str(seed_row, ID_COL_ARTISTS)>>

\* Line 212: the seed row and the de-duplicated rows, with what the call
\* computed on the way.
TrackResult(seed, neighbors, pool_recs, seed_key, deduped) ==
    [raised |-> deduped.raised,
     seed_row |-> IF deduped.raised = "none" THEN seed.seed_row ELSE NoRow,
     recs |-> deduped.recs,
     indices |-> seed.indices, seed_idx |-> seed.seed_idx,
     seed_vec |-> seed.seed_vec,
     pool |-> pool_recs, seed_key |-> seed_key, neighbors |-> neighbors]

\* Lines 206-210: the seed key and the de-duplication of the pool.
RecommendFromPool(engine, seed, neighbors, pool_recs, seed_key, n, lib) ==
    TrackResult(seed, neighbors, pool_recs, seed_key,
                _dedupe_recommendations(PoolColumns(engine), pool_recs, n,
                                        seed_key, lib))

\* Lines 176-212 on the resolved seed.
RecommendFromSeed(engine, seed, n, lib) ==
    IF seed.raised # "none" THEN Raised(seed.raised)
    ELSE IF seed.indices = <<>>
    THEN [Raised("none") EXCEPT !.recs = head(engine.df.rows, 0)]
    ELSE RecommendFromPool(
             engine, seed,
             query_neighbors(engine.models, engine.X_scaled,
                             seed.seed_vec, PoolSize(n)).indices,
             _recommend_from_vector(engine, seed.seed_vec, PoolSize(n), seed.seed_idx),
             SeedKey(seed.seed_row[1]), n, lib)

recommend_by_track(engine, track_name, n, artist_hint, lib) ==
    RecommendFromSeed(engine, ResolveSeed(engine, track_name, artist_hint), n, lib)

NoExtra == <<>>

\* overrides.update(extra_overrides)
DictUpdate(a, b) ==
    [k \in DOMAIN a \cup DOMAIN b |-> IF k \in DOMAIN b THEN b[k] ELSE a[k]]

recommend_by_mood(engine, energy, valence, danceability, n, extra_overrides, lib) ==
    LET basic == [energy |-> energy, valence |-> valence, danceability |-> danceability]
        overrides == IF extra_overrides # NoExtra
                     THEN DictUpdate(basic, extra_overrides) ELSE basic
        mood_vec == _build_mood_vector(engine, overrides)
        pool_size == PoolSize(n)
        pool_recs == _recommend_from_vector(engine, mood_vec, pool_size, NoIndex)
        deduped == _dedupe_recommendations(PoolColumns(engine), pool_recs, n,
                                           NoSeedKey, lib)
    IN  [raised |-> deduped.raised, recs |-> deduped.recs,
         raw_vec |-> RawMoodVector(engine, overrides),
         mood_vec |-> mood_vec, pool |-> pool_recs,
         neighbors |-> query_neighbors(engine.models, engine.X_scaled,
                                       mood_vec, pool_size).indices]

\* One row per cluster label present, ascending: the label and per feature
\* the mean <<sum, count>> over the rows of that label.
describe_clusters(engine) ==
    LET labels == {engine.df.rows[i].mood_cluster : i \in 1..Len(engine.df.rows)}
        order == Ordered(labels, [c \in labels |-> c], "lower")
        Group(c) == [columns |-> engine.df.columns, objcols |-> engine.df.objcols,
                     rows |-> SelectSeq(engine.df.rows, LAMBDA r : r.mood_cluster = c)]
    IN  [p \in 1..Len(order) |->
            [mood_cluster |-> order[p],
             means |-> FeatureMeans(Group(order[p]), engine.feature_columns)]]

\* The permutation of 1..len drawn from random_state=0.
Permutation0(len, lib) ==
    [p \in 1..len |-> IF lib = "lower" THEN p ELSE len + 1 - p]

\* min(n, len(subset)) rows of the cluster, drawn with random_state=0; then
\* the identity columns are selected (KeyError when one is absent).
sample_cluster_tracks(engine, cluster_label, n, lib) ==
    LET subset == SelectSeq(engine.df.rows, LAMBDA r : r.mood_cluster = cluster_label)
        k == Min2(n, Len(subset))
        perm == Permutation0(Len(subset), lib)
    IN  IF k < 0 THEN [raised |-> "ValueError", rows |-> <<>>]
        ELSE IF ~({ID_COL_TRACK_NAME, ID_COL_ARTISTS, ID_COL_GENRE} \subseteq engine.df.columns)
        THEN [raised |-> "KeyError", rows |-> <<>>]
        ELSE [raised |-> "none", rows |-> [p \in 1..k |-> subset[perm[p]]]]

\* ---------------------------------------------------------------- inputs
ClusterSettings == {1, 2}
NeighborSettings == {1, DEFAULT_N_NEIGHBORS}
TrackNames == {<<"A">>, <<"z">>}
ArtistHints == {NoHint, <<"X">>, <<"x", ".">>, <<"(">>}
Counts == 0..MaxN
MoodPoints ==
    { [energy |-> 0 - 1, valence |-> 0, danceability |-> 0],
      [energy |-> 1, valence |-> 1, danceability |-> 1] }
ExtraOverrides == {NoExtra, [tempo |-> 1, energy |-> 0]}
ClusterLabels == 0..2
NeighborCounts == 0..(MaxN + 1)

\* ---------------------------------------------------------------- behaviour
\* Calls are synchronous: a query runs to completion and its caller takes the
\* result (Return) before the next call is made.
NoCall == [op |-> "none"]
NoRet == [raised |-> "none"]
NoTrace == [op |-> "none"]
NoFitArgs == [n_clusters |-> 0, n_neighbors |-> 0, centers |-> {}]
NoBuild == [op |-> "none"]
Sessions == 1..MaxSessions
IdleSession == [pc |-> "idle", call |-> NoCall, loc |-> NoTrace, ret |-> NoRet]

Init ==
    /\ csv \in CsvFiles
    /\ numlib \in NumLibs
    /\ pc = "start"
    /\ fit_args = NoFitArgs
    /\ self = NoEngine
    /\ build = NoBuild
    /\ sessions = [t \in Sessions |-> IdleSession]
    /\ call = NoCall
    /\ ret = NoRet
    /\ trace = NoTrace

\* VibeRecommender.from_csv(csv): the whole construction; on an error no
\* instance exists.
FromCsv ==
    /\ pc = "start"
    /\ \E n_clusters \in ClusterSettings, n_neighbors \in NeighborSettings :
         LET prep == preprocess_pipeline(csv, FEATURE_COLUMNS)
             outcomes == IF prep.raised = "none" /\ Len(prep.X_scaled) >= n_clusters
                         THEN KMeansOutcomes(prep.X_scaled, n_clusters) ELSE {{}}
         IN  \E centers \in outcomes :
               LET built == from_csv(csv, FEATURE_COLUMNS, n_clusters, n_neighbors,
                                     centers, numlib)
               IN  /\ pc' = IF built.raised = "none" THEN "ready" ELSE "failed"
                   /\ self' = built.engine
                   /\ fit_args' = [n_clusters |-> n_clusters, n_neighbors |-> n_neighbors,
                                   centers |-> centers]
                   /\ ret' = [raised |-> built.raised]
                   /\ build' = [op |-> "preprocess_pipeline",
                                raw_df |-> load_dataset(csv),
                                clean |-> clean_and_select_features(load_dataset(csv),
                                                                    FEATURE_COLUMNS)]
    /\ UNCHANGED <<csv, numlib, sessions, call, trace>>

Idle == pc = "ready" /\ call = NoCall

RecommendByTrack ==
    /\ Idle
    /\ \E track_name \in TrackNames, n \in Counts, artist_hint \in ArtistHints :
         LET r == recommend_by_track(self, track_name, n, artist_hint, numlib)
         IN  /\ call' = [op |-> "recommend_by_track", track_name |-> track_name,
                         n |-> n, artist_hint |-> artist_hint]
             /\ ret' = [raised |-> r.raised, seed_row |-> r.seed_row, recs |-> r.recs]
             /\ trace' = [op |-> "recommend_by_track", indices |-> r.indices,
                          seed_idx |-> r.seed_idx, seed_vec |-> r.seed_vec,
                          pool |-> r.pool, seed_key |-> r.seed_key,
                          neighbors |-> r.neighbors]
    /\ UNCHANGED <<csv, numlib, pc, fit_args, self, build, sessions>>

\* recommend_by_mood with the scaler refitted on the query (fit_transform in
\* place of transform).
RecommendByMoodRefitting ==
    /\ Idle
    /\ \E point \in MoodPoints, n \in Counts, extra_overrides \in ExtraOverrides :
         LET r == recommend_by_mood(self, point.energy, point.valence,
                                    point.danceability, n, extra_overrides, numlib)
         IN  /\ call' = [op |-> "recommend_by_mood", energy |-> point.energy,
                         valence |-> point.valence, danceability |-> point.danceability,
                         n |-> n, extra_overrides |-> extra_overrides]
             /\ ret' = [raised |-> r.raised, recs |-> r.recs]
             /\ trace' = [op |-> "recommend_by_mood", raw_vec |-> r.raw_vec,
                          mood_vec |-> r.mood_vec, pool |-> r.pool,
                          seed_key |-> NoSeedKey, neighbors |-> r.neighbors]
             /\ self' = [self EXCEPT !.scaler =
                            StandardScalerFit(<<[j \in 1..Len(r.raw_vec) |-> r.raw_vec[j][1]]>>)]
    /\ UNCHANGED <<csv, numlib, pc, fit_args, build, sessions>>

RecommendByMood ==
    /\ Idle
    /\ \E point \in MoodPoints, n \in Counts, extra_overrides \in ExtraOverrides :
         LET r == recommend_by_mood(self, point.energy, point.valence,
                                    point.danceability, n, extra_overrides, numlib)
         IN  /\ call' = [op |-> "recommend_by_mood", energy |-> point.energy,
                         valence |-> point.valence, danceability |-> point.danceability,
                         n |-> n, extra_overrides |-> extra_overrides]
             /\ ret' = [raised |-> r.raised, recs |-> r.recs]
             /\ trace' = [op |-> "recommend_by_mood", raw_vec |-> r.raw_vec,
                          mood_vec |-> r.mood_vec, pool |-> r.pool,
                          seed_key |-> NoSeedKey, neighbors |-> r.neighbors]
    /\ UNCHANGED <<csv, numlib, pc, fit_args, self, build, sessions>>

DescribeClusters ==
    /\ Idle
    /\ call' = [op |-> "describe_clusters"]
    /\ ret' = [raised |-> "none", summary |-> describe_clusters(self)]
    /\ trace' = NoTrace
    /\ UNCHANGED <<csv, numlib, pc, fit_args, self, build, sessions>>

\* The caller may ask again while it still holds the previous sample.
SampleClusterTracks ==
    /\ Idle \/ (pc = "ready" /\ call.op = "sample_cluster_tracks")
    /\ \E cluster_label \in ClusterLabels, n \in Counts :
         LET r == sample_cluster_tracks(self, cluster_label, n, numlib)
         IN  /\ call' = [op |-> "sample_cluster_tracks",
                         cluster_label |-> cluster_label, n |-> n]
             /\ ret' = [raised |-> r.raised, rows |-> r.rows]
             /\ trace' = NoTrace
    /\ UNCHANGED <<csv, numlib, pc, fit_args, self, build, sessions>>

\* models.query_neighbors(X_scaled, query_vector, k) on the models of the
\* engine, the query vector a row of the standardized matrix.
QueryNeighbors ==
    /\ Idle
    /\ \E i \in 1..Len(self.X_scaled), k \in NeighborCounts :
         LET r == query_neighbors(self.models, self.X_scaled, self.X_scaled[i], k)
         IN  /\ call' = [op |-> "query_neighbors", query_vector |-> self.X_scaled[i],
                         k |-> k]
             /\ ret' = [raised |-> r.raised, distances |-> r.distances,
                        indices |-> r.indices]
             /\ trace' = NoTrace
    /\ UNCHANGED <<csv, numlib, pc, fit_args, self, build, sessions>>

\* self._dedupe_recommendations(recs, n, seed_key) on the result a
\* recommendation has just returned, with the count and the seed key of that
\* recommendation.
DedupeRecommendations ==
    /\ pc = "ready"
    /\ call.op \in {"recommend_by_track", "recommend_by_mood"}
    /\ ret.raised = "none"
    /\ call.op = "recommend_by_track" => ret.seed_row # NoRow
    /\ LET r == _dedupe_recommendations(PoolColumns(self), ret.recs, call.n,
                                        trace.seed_key, numlib)
       IN  /\ call' = [op |-> "_dedupe_recommendations", recs |-> ret.recs,
                       n |-> call.n, seed_key |-> trace.seed_key]
           /\ ret' = [raised |-> r.raised, recs |-> r.recs]
           /\ trace' = NoTrace
    /\ UNCHANGED <<csv, numlib, pc, fit_args, self, build, sessions>>

\* The caller takes the result, or catches the error, of the query.
Return ==
    /\ pc = "ready"
    /\ call # NoCall
    /\ call' = NoCall
    /\ ret' = NoRet
    /\ trace' = NoTrace
    /\ UNCHANGED <<csv, numlib, pc, fit_args, self, build, sessions>>

Next ==
    \/ FromCsv
    \/ RecommendByTrack
    \/ RecommendByMood
    \/ DescribeClusters
    \/ SampleClusterTracks
    \/ QueryNeighbors
    \/ DedupeRecommendations
    \/ Return

Spec == Init /\ [][Next]_vars

\* ---------------------------------------------------------------- serving
\* The web front end: load_recommender() runs from_csv once, statement by
\* statement, and hands the instance to the sessions when it has returned;
\* every session runs its queries in a thread of its own, one helper call at a
\* time, on the one instance.

\* The files of the front end: full length or one line, every column or one
\* feature column short, tracks of valence 0.
ServeFiles ==
    {f \in CsvFiles :
        /\ Len(f.lines) \in {1, MaxRows}
        /\ f.columns \in {AllColumns, AllColumns \ {"tempo"}}
        /\ \A i \in 1..Len(f.lines) : f.lines[i].valence = 0}

\* The queries a session makes.
ServeCalls ==
    { [op |-> "recommend_by_track", track_name |-> <<"A">>, n |-> MaxN,
       artist_hint |-> h] : h \in {NoHint, <<"X">>} }
    \cup { [op |-> "recommend_by_mood", energy |-> pt.energy, valence |-> pt.valence,
            danceability |-> pt.danceability, n |-> MaxN,
            extra_overrides |-> NoExtra] : pt \in MoodPoints }
    \cup { [op |-> "describe_clusters"] }
    \cup { [op |-> "sample_cluster_tracks", cluster_label |-> 0, n |-> MaxN] }

ServeInit ==
    /\ csv \in ServeFiles
    /\ numlib \in NumLibs
    /\ pc = "start"
    /\ fit_args = NoFitArgs
    /\ self = NoEngine
    /\ build = NoBuild
    /\ sessions = [t \in Sessions |-> IdleSession]
    /\ call = NoCall
    /\ ret = NoRet
    /\ trace = NoTrace

\* raw_df = load_dataset(csv_path)
LoadDataset ==
    /\ pc = "start"
    /\ pc' = "loaded"
    /\ build' = [op |-> "load_dataset", raised |-> "none", raw_df |-> load_dataset(csv)]
    /\ UNCHANGED <<csv, numlib, fit_args, self, sessions, call, ret, trace>>

\* df_clean = clean_and_select_features(raw_df, feature_columns)
CleanAndSelectFeatures ==
    /\ pc = "loaded"
    /\ LET clean == clean_and_select_features(build.raw_df, FEATURE_COLUMNS)
       IN  /\ pc' = IF clean.raised = "none" THEN "cleaned" ELSE "failed"
           /\ build' = [op |-> "clean_and_select_features", raised |-> clean.raised,
                        raw_df |-> clean.raw, clean |-> clean]
    /\ UNCHANGED <<csv, numlib, fit_args, self, sessions, call, ret, trace>>

\* X_scaled, scaler = scale_features(df_clean, feature_columns), and the
\* PreprocessResult with the table re-labelled.
ScaleFeatures ==
    /\ pc = "cleaned"
    /\ LET scaled == scale_features(build.clean.df, FEATURE_COLUMNS, NoScaler)
       IN  /\ pc' = IF scaled.raised = "none" THEN "scaled" ELSE "failed"
           /\ build' = [op |-> "scale_features", raised |-> scaled.raised,
                        raw_df |-> build.raw_df, clean |-> build.clean,
                        df |-> reset_index(build.clean.df),
                        X_scaled |-> scaled.X_scaled, scaler |-> scaled.scaler]
    /\ UNCHANGED <<csv, numlib, fit_args, self, sessions, call, ret, trace>>

\* models = VibeModels.fit(prep.X_scaled, n_clusters, n_neighbors)
FitModels ==
    /\ pc = "scaled"
    /\ \E n_clusters \in ClusterSettings, n_neighbors \in NeighborSettings :
         \E centers \in (IF Len(build.X_scaled) >= n_clusters
                          THEN KMeansOutcomes(build.X_scaled, n_clusters) ELSE {{}}) :
            LET models == fit(build.X_scaled, n_clusters, n_neighbors, centers, numlib)
            IN  /\ pc' = IF models.raised = "none" THEN "fitted" ELSE "failed"
                /\ fit_args' = [n_clusters |-> n_clusters, n_neighbors |-> n_neighbors,
                                centers |-> centers]
                /\ build' = [op |-> "fit", raised |-> models.raised,
                             raw_df |-> build.raw_df, clean |-> build.clean,
                             df |-> build.df, X_scaled |-> build.X_scaled,
                             scaler |-> build.scaler,
                             models |-> [kmeans |-> models.kmeans, knn |-> models.knn]]
    /\ UNCHANGED <<csv, numlib, self, sessions, call, ret, trace>>

\* clusters = models.assign_clusters(prep.X_scaled); the labelled copy of the
\* table; return cls(...): the instance exists from here on.
AssignClusters ==
    /\ pc = "fitted"
    /\ pc' = "ready"
    /\ self' = [df |-> WithClusters(build.df, assign_clusters(build.models, build.X_scaled)),
                X_scaled |-> build.X_scaled,
                feature_columns |-> FEATURE_COLUMNS,
                models |-> build.models,
                scaler |-> build.scaler]
    /\ build' = [build EXCEPT !.op = "assign_clusters"]
    /\ UNCHANGED <<csv, numlib, fit_args, sessions, call, ret, trace>>

\* rec = load_recommender() has returned the instance.
EngineAvailableEarly == pc \in {"scaled", "fitted", "ready"}

EngineAvailable == pc = "ready"

\* A session calls a query entry point of the instance.
StartQuery(t) ==
    /\ EngineAvailable
    /\ sessions[t].pc = "idle"
    /\ \E c \in ServeCalls :
         sessions' = [sessions EXCEPT ![t] =
                        [pc |-> "called", call |-> c, loc |-> NoTrace, ret |-> NoRet]]
    /\ UNCHANGED <<csv, numlib, pc, fit_args, self, build, call, ret, trace>>

\* recommend_by_track, lines 175-196: the seed, or the early return.
SessionResolveSeed(t) ==
    /\ sessions[t].pc = "called"
    /\ sessions[t].call.op = "recommend_by_track"
    /\ LET c == sessions[t].call
           seed == ResolveSeed(self, c.track_name, c.artist_hint)
       IN  sessions' = [sessions EXCEPT ![t] =
             IF seed.raised # "none"
             THEN [@ EXCEPT !.pc = "done",
                            !.ret = [raised |-> seed.raised, seed_row |-> NoRow,
                                     recs |-> <<>>]]
             ELSE IF seed.indices = <<>>
             THEN [@ EXCEPT !.pc = "done",
                            !.ret = [raised |-> "none", seed_row |-> NoRow,
                                     recs |-> head(self.df.rows, 0)]]
             ELSE [@ EXCEPT !.pc = "vector",
                            !.loc = [op |-> c.op, query_vec |-> seed.seed_vec,
                                     exclude_index |-> seed.seed_idx,
                                     seed_row |-> seed.seed_row,
                                     seed_key |-> SeedKey(seed.seed_row[1])]]]
    /\ UNCHANGED <<csv, numlib, pc, fit_args, self, build, call, ret, trace>>

\* recommend_by_mood with _build_mood_vector refitting the scaler on the
\* query (fit_transform in place of transform).
SessionBuildMoodVectorRefitting(t) ==
    /\ sessions[t].pc = "called"
    /\ sessions[t].call.op = "recommend_by_mood"
    /\ LET c == sessions[t].call
           overrides == [energy |-> c.energy, valence |-> c.valence,
                         danceability |-> c.danceability]
           raw_vec == RawMoodVector(self, overrides)
       IN  /\ sessions' = [sessions EXCEPT ![t] =
                 [@ EXCEPT !.pc = "vector",
                           !.loc = [op |-> c.op,
                                    query_vec |-> _build_mood_vector(self, overrides),
                                    exclude_index |-> NoIndex, seed_row |-> NoRow,
                                    seed_key |-> NoSeedKey]]]
           /\ self' = [self EXCEPT !.scaler =
                          StandardScalerFit(<<[j \in 1..Len(raw_vec) |-> raw_vec[j][1]]>>)]
    /\ UNCHANGED <<csv, numlib, pc, fit_args, build, call, ret, trace>>

\* recommend_by_mood, lines 236-246: the overrides and the mood vector.
SessionBuildMoodVector(t) ==
    /\ sessions[t].pc = "called"
    /\ sessions[t].call.op = "recommend_by_mood"
    /\ LET c == sessions[t].call
           basic == [energy |-> c.energy, valence |-> c.valence,
                     danceability |-> c.danceability]
           overrides == IF c.extra_overrides # NoExtra
                        THEN DictUpdate(basic, c.extra_overrides) ELSE basic
       IN  sessions' = [sessions EXCEPT ![t] =
             [@ EXCEPT !.pc = "vector",
                       !.loc = [op |-> c.op,
                                query_vec |-> _build_mood_vector(self, overrides),
                                exclude_index |-> NoIndex, seed_row |-> NoRow,
                                seed_key |-> NoSeedKey]]]
    /\ UNCHANGED <<csv, numlib, pc, fit_args, self, build, call, ret, trace>>

\* pool_recs = self._recommend_from_vector(vec, n=pool_size, exclude_index)
SessionRecommendFromVector(t) ==
    /\ sessions[t].pc = "vector"
    /\ LET l == sessions[t].loc
           pool == _recommend_from_vector(self, l.query_vec,
                                          PoolSize(sessions[t].call.n), l.exclude_index)
       IN  sessions' = [sessions EXCEPT ![t] =
             [@ EXCEPT !.pc = "pool",
                       !.loc = [op |-> l.op, pool |-> pool, columns |-> PoolColumns(self),
                                seed_row |-> l.seed_row, seed_key |-> l.seed_key]]]
    /\ UNCHANGED <<csv, numlib, pc, fit_args, self, build, call, ret, trace>>

\* recs = self._dedupe_recommendations(pool_recs, n, seed_key); return.
SessionDedupe(t) ==
    /\ sessions[t].pc = "pool"
    /\ LET l == sessions[t].loc
           r == _dedupe_recommendations(l.columns, l.pool, sessions[t].call.n,
                                        l.seed_key, numlib)
       IN  sessions' = [sessions EXCEPT ![t] =
             [@ EXCEPT !.pc = "done",
                       !.loc = NoTrace,
                       !.ret = IF l.op = "recommend_by_track"
                               THEN [raised |-> r.raised,
                                     seed_row |-> IF r.raised = "none"
                                                  THEN l.seed_row ELSE NoRow,
                                     recs |-> r.recs]
                               ELSE [raised |-> r.raised, recs |-> r.recs]]]
    /\ UNCHANGED <<csv, numlib, pc, fit_args, self, build, call, ret, trace>>

SessionDescribeClusters(t) ==
    /\ sessions[t].pc = "called"
    /\ sessions[t].call.op = "describe_clusters"
    /\ sessions' = [sessions EXCEPT ![t] =
          [@ EXCEPT !.pc = "done",
                    !.ret = [raised |-> "none", summary |-> describe_clusters(self)]]]
    /\ UNCHANGED <<csv, numlib, pc, fit_args, self, build, call, ret, trace>>

SessionSampleClusterTracks(t) ==
    /\ sessions[t].pc = "called"
    /\ sessions[t].call.op = "sample_cluster_tracks"
    /\ LET c == sessions[t].call
           r == sample_cluster_tracks(self, c.cluster_label, c.n, numlib)
       IN  sessions' = [sessions EXCEPT ![t] =
             [@ EXCEPT !.pc = "done", !.ret = [raised |-> r.raised, rows |-> r.rows]]]
    /\ UNCHANGED <<csv, numlib, pc, fit_args, self, build, call, ret, trace>>

\* The page renders the result, or the error; the session is free again.
SessionReturn(t) ==
    /\ sessions[t].pc = "done"
    /\ sessions' = [sessions EXCEPT ![t] = IdleSession]
    /\ UNCHANGED <<csv, numlib, pc, fit_args, self, build, call, ret, trace>>

ServeNext ==
    \/ LoadDataset
    \/ CleanAndSelectFeatures
    \/ ScaleFeatures
    \/ FitModels
    \/ AssignClusters
    \/ \E t \in Sessions :
          \/ StartQuery(t)
          \/ SessionResolveSeed(t)
          \/ SessionBuildMoodVector(t)
          \/ SessionRecommendFromVector(t)
          \/ SessionDedupe(t)
          \/ SessionDescribeClusters(t)
          \/ SessionSampleClusterTracks(t)
          \/ SessionReturn(t)

Serve == ServeInit /\ [][ServeNext]_vars

\* ================================================================ properties
TrackDone == call.op = "recommend_by_track" /\ ret.raised = "none"
MoodDone == call.op = "recommend_by_mood" /\ ret.raised = "none"
Recommended == TrackDone \/ MoodDone
HasIdentity == {ID_COL_TRACK_NAME, ID_COL_ARTISTS} \subseteq self.df.columns
Pairs(rows) == {PairKey(rows[i]) : i \in 1..Len(rows)}

\* C1: a result of recommend_by_mood or recommend_by_track never has more
\* rows than the requested count n (n >= 0).
C1_ResultAtMostN == Recommended => Len(ret.recs) <= call.n

\* C1 witness: the pool held more rows than requested and was cut to n >= 1.
C1_Witness ==
    /\ Recommended
    /\ call.n >= 1
    /\ Len(trace.pool) > call.n
    /\ Len(ret.recs) = call.n

\* The neighbor count fixed at fit time.
FittedNeighbors == Min2(fit_args.n_neighbors, Len(self.df.rows))

\* C2 as stated: recommend_by_mood returns exactly n rows whenever the catalog
\* holds at least n rows distinct by (name, artist).
C2_ExactlyNWhenCatalogHasN ==
    (MoodDone /\ HasIdentity /\ Cardinality(Pairs(self.df.rows)) >= call.n)
        => Len(ret.recs) = call.n

\* C2 amended: the pool of recommend_by_mood is the
\* min(max(30, n + 5), fitted neighbor count) nearest rows, and the result has
\* exactly n rows whenever that pool holds at least n rows distinct by
\* (name, artist).
C2_ExactlyNWhenPoolHasN ==
    MoodDone =>
        /\ Len(trace.pool) = Min2(PoolSize(call.n), FittedNeighbors)
        /\ (HasIdentity /\ Cardinality(Pairs(trace.pool)) >= call.n)
               => Len(ret.recs) = call.n

\* C2 witness: a pool with a duplicate pair still fills the requested count.
C2_Witness ==
    /\ MoodDone
    /\ HasIdentity
    /\ call.n >= 1
    /\ Cardinality(Pairs(trace.pool)) >= call.n
    /\ Cardinality(Pairs(trace.pool)) < Len(trace.pool)
    /\ Len(ret.recs) = call.n

\* C3: a result of recommend_by_track holds neither the seed row nor a row
\* whose (name, artist) pair, missing cells included, is the seed's.
C3_SeedPairExcluded ==
    (TrackDone /\ ret.seed_row # NoRow) =>
        \A i \in 1..Len(ret.recs) :
            /\ ret.recs[i].index # ret.seed_row[1].index
            /\ PairKey(ret.recs[i]) # PairKey(ret.seed_row[1])

\* C4: on a catalog with the name and artist columns, no two rows of a result
\* share a (name, artist) pair, every row of the result is a row of the pool,
\* and no pool row of the same pair is closer than it.
C4_DistinctPairsClosestKept ==
    (Recommended /\ HasIdentity) =>
        /\ \A i, j \in 1..Len(ret.recs) :
              i < j => PairKey(ret.recs[i]) # PairKey(ret.recs[j])
        /\ \A i \in 1..Len(ret.recs) :
              /\ \E p \in 1..Len(trace.pool) : trace.pool[p] = ret.recs[i]
              /\ \A p \in 1..Len(trace.pool) :
                    PairKey(trace.pool[p]) = PairKey(ret.recs[i])
                        => ret.recs[i].distance <= trace.pool[p].distance

\* C4 witness: the pool held a farther row of a pair that is in the result.
C4_Witness ==
    /\ Recommended
    /\ HasIdentity
    /\ \E i \in 1..Len(ret.recs), p \in 1..Len(trace.pool) :
          /\ PairKey(trace.pool[p]) = PairKey(ret.recs[i])
          /\ trace.pool[p].distance > ret.recs[i].distance

\* A pool row that deduplication leaves to the truncation and the result does
\* not hold: not of the seed's pair, and its pair (its position, without the
\* identity columns) is not in the result.
LeftOut(row) ==
    /\ TrackDone => PairKey(row) # PairKey(ret.seed_row[1])
    /\ IF HasIdentity
       THEN PairKey(row) \notin Pairs(ret.recs)
       ELSE \A i \in 1..Len(ret.recs) : ret.recs[i].index # row.index

\* C5: a result is in non-decreasing order of distance, and no left-out row
\* of the deduplicated pool is strictly closer than a returned row.
C5_AscendingClosestKept ==
    Recommended =>
        /\ \A i, j \in 1..Len(ret.recs) :
              i < j => ret.recs[i].distance <= ret.recs[j].distance
        /\ \A p \in 1..Len(trace.pool), i \in 1..Len(ret.recs) :
              LeftOut(trace.pool[p]) => trace.pool[p].distance >= ret.recs[i].distance

\* C5 witness: truncation to n >= 1 left out a strictly farther row.
C5_Witness ==
    /\ Recommended
    /\ call.n >= 1
    /\ Len(ret.recs) = call.n
    /\ \E p \in 1..Len(trace.pool) :
          /\ LeftOut(trace.pool[p])
          /\ trace.pool[p].distance > ret.recs[Len(ret.recs)].distance

\* Some catalog row's name equals the requested name, case-insensitively.
NameMatch(row) ==
    /\ ID_COL_TRACK_NAME \in self.df.columns
    /\ ID_COL_TRACK_NAME \notin row.na
    /\ Lower(row[ID_COL_TRACK_NAME]) = Lower(call.track_name)
NameMatches == {i \in 1..Len(self.df.rows) : NameMatch(self.df.rows[i])}

\* C6: without a case-insensitive name match recommend_by_track returns the
\* not-found sentinel and an empty result and raises nothing; with a match it
\* returns a seed row.
C6_NotFoundOrSeed ==
    call.op = "recommend_by_track" =>
        /\ ret.raised = "none"
        /\ IF NameMatches = {}
           THEN ret.seed_row = NoRow /\ ret.recs = <<>>
           ELSE ret.seed_row # NoRow

\* sub occurs in s, case-insensitively.
SubstringCI(sub, s) ==
    \E start \in 1..(Len(s) - Len(sub) + 1) :
        \A k \in 1..Len(sub) : LowerChar(sub[k]) = LowerChar(s[start + k - 1])

\* The name matches whose artist contains the hint as a substring.
HintMatches ==
    {i \in NameMatches :
        /\ ID_COL_ARTISTS \in self.df.columns
        /\ ID_COL_ARTISTS \notin self.df.rows[i].na
        /\ SubstringCI(call.artist_hint, self.df.rows[i][ID_COL_ARTISTS])}

FirstOf(S) == CHOOSE i \in S : \A j \in S : i <= j

\* C7: the seed is the first name match whose artist contains artist_hint as
\* a case-insensitive substring, and the first name match when no hint is
\* given or no match's artist contains it.
C7_SeedResolution ==
    (call.op = "recommend_by_track" /\ NameMatches # {}) =>
        /\ ret.raised = "none"
        /\ ret.seed_row # NoRow
        /\ ret.seed_row[1] =
             self.df.rows[IF call.artist_hint # NoHint /\ HintMatches # {}
                          THEN FirstOf(HintMatches) ELSE FirstOf(NameMatches)]

\* The value the caller gave for a feature: the extra override, else the
\* basic control of that name.
CallerValue(f) ==
    IF f \in DOMAIN call.extra_overrides THEN call.extra_overrides[f] ELSE call[f]

\* C8: in the raw mood vector a feature named energy, valence, danceability
\* or by extra_overrides holds the caller's value unchanged and any other the
\* catalog mean; the query vector is that vector under the scaler fitted on
\* the catalog.
C8_MoodVector ==
    MoodDone =>
        LET F == self.feature_columns
            X == FeatureValues(self.df, F)
            m == Len(X)
        IN  /\ Len(trace.raw_vec) = Len(F)
            /\ \A j \in 1..Len(F) :
                  IF F[j] \in {"energy", "valence", "danceability"}
                              \cup DOMAIN call.extra_overrides
                  THEN trace.raw_vec[j][1] = CallerValue(F[j]) * trace.raw_vec[j][2]
                  ELSE trace.raw_vec[j][1] * m
                         = SumSeq([i \in 1..m |-> X[i][j]]) * trace.raw_vec[j][2]
            /\ self.scaler = StandardScalerFit(X)
            /\ \A j \in 1..Len(F) :
                  /\ trace.mood_vec[j][2] = self.scaler.W[j]
                  /\ trace.mood_vec[j][1] * trace.raw_vec[j][2]
                        = trace.raw_vec[j][1] * m - self.scaler.sum[j] * trace.raw_vec[j][2]

\* C8 witness: a negative energy, no extra override, and a tempo mean that is
\* no whole number.
C8_Witness ==
    /\ MoodDone
    /\ call.energy < 0
    /\ call.extra_overrides = NoExtra
    /\ trace.raw_vec[1] = <<call.energy, 1>>
    /\ trace.raw_vec[3][2] > 1
    /\ trace.raw_vec[3][1] % trace.raw_vec[3][2] # 0

\* The engine from_csv returned for the file, the settings and the fit.
Constructed ==
    from_csv(csv, FEATURE_COLUMNS, fit_args.n_clusters, fit_args.n_neighbors,
             fit_args.centers, numlib).engine

\* What the query of the current call returns on the given engine.
ResultOn(engine) ==
    CASE call.op = "recommend_by_track" ->
            LET r == recommend_by_track(engine, call.track_name, call.n,
                                        call.artist_hint, numlib)
            IN  [raised |-> r.raised, seed_row |-> r.seed_row, recs |-> r.recs]
      [] call.op = "recommend_by_mood" ->
            LET r == recommend_by_mood(engine, call.energy, call.valence,
                                       call.danceability, call.n,
                                       call.extra_overrides, numlib)
            IN  [raised |-> r.raised, recs |-> r.recs]
      [] call.op = "describe_clusters" ->
            [raised |-> "none", summary |-> describe_clusters(engine)]
      [] call.op = "sample_cluster_tracks" ->
            LET r == sample_cluster_tracks(engine, call.cluster_label, call.n, numlib)
            IN  [raised |-> r.raised, rows |-> r.rows]
      [] call.op = "query_neighbors" ->
            LET r == query_neighbors(engine.models, engine.X_scaled,
                                     call.query_vector, call.k)
            IN  [raised |-> r.raised, distances |-> r.distances, indices |-> r.indices]
      [] call.op = "_dedupe_recommendations" ->
            LET r == _dedupe_recommendations(PoolColumns(engine), call.recs, call.n,
                                             call.seed_key, numlib)
            IN  [raised |-> r.raised, recs |-> r.recs]
      [] OTHER -> NoRet

\* C9: whatever queries have run, found or not, failed or not, the engine
\* (catalog, standardized matrix, scaler, cluster labels, neighbor index) is
\* the one construction returned, and a query returns what it returns on that
\* engine.
C9_EngineAsConstructed ==
    pc = "ready" =>
        /\ self = Constructed
        /\ call # NoCall => ret = ResultOn(Constructed)

\* C9 witness: a query has failed on a built engine.
C9_Witness ==
    /\ pc = "ready"
    /\ call.op \in {"recommend_by_track", "sample_cluster_tracks"}
    /\ ret.raised # "none"

\* The line of the CSV file a row was read from, and its standardized vector.
SourceLine(row) == csv.lines[row.line + 1]
StdVector(line) ==
    Transform(self.scaler,
              OverN(self.scaler,
                    [j \in 1..Len(FEATURE_COLUMNS) |-> line[FEATURE_COLUMNS[j]]]))
CompleteLines ==
    {i \in 1..Len(csv.lines) : \A f \in FeatureSet : f \notin csv.lines[i].na}

\* C10: the catalog of a built engine is the complete lines of the file in
\* file order, labelled 0..m-1; row i, standardized vector i and cluster
\* label i come from the same line; the seed vector of recommend_by_track is
\* the vector of the seed row's line, and every pool row carries the distance
\* of its own line's vector to the query vector.
C10_RowAlignment ==
    pc = "ready" =>
        LET rows == self.df.rows
        IN  /\ Len(rows) = Cardinality(CompleteLines)
            /\ Len(self.X_scaled) = Len(rows)
            /\ \A i \in 1..Len(rows) :
                  /\ rows[i].index = i - 1
                  /\ (rows[i].line + 1) \in CompleteLines
                  /\ \A j \in 1..Len(rows) : i < j => rows[i].line < rows[j].line
                  /\ \A f \in DOMAIN SourceLine(rows[i]) : rows[i][f] = SourceLine(rows[i])[f]
                  /\ self.X_scaled[i] = StdVector(SourceLine(rows[i]))
                  /\ rows[i].mood_cluster
                        = Predict(self.models.kmeans, StdVector(SourceLine(rows[i])))
            /\ (TrackDone /\ ret.seed_row # NoRow) =>
                  /\ trace.seed_vec = StdVector(SourceLine(ret.seed_row[1]))
                  /\ \A p \in 1..Len(trace.pool) :
                        trace.pool[p].distance
                          = Distance(StdVector(SourceLine(trace.pool[p])), trace.seed_vec)
            /\ MoodDone =>
                  \A p \in 1..Len(trace.pool) :
                        trace.pool[p].distance
                          = Distance(StdVector(SourceLine(trace.pool[p])), trace.mood_vec)

\* C10 witness: cleaning dropped a line ahead of the row a track query
\* resolved as its seed.
C10_Witness ==
    /\ TrackDone
    /\ ret.seed_row # NoRow
    /\ ret.seed_row[1].line > ret.seed_row[1].index

\* The positions of the raw rows in which every named feature is present.
CompleteRows(raw) ==
    {i \in 1..Len(raw.rows) : raw.rows[i].na \cap FeatureSet = {}}

\* C11: clean_and_select_features returns exactly the raw rows in which every
\* named feature is present, unchanged and in the raw order, whatever is
\* missing in their other columns, and the raw table is after the call what
\* it was before.
C11_CompleteRowsKept ==
    (build # NoBuild /\ build.clean.raised = "none") =>
        LET raw == build.raw_df
            out == build.clean.df
        IN  /\ raw = load_dataset(csv)
            /\ build.clean.raw = raw
            /\ out.columns = raw.columns
            /\ Len(out.rows) = Cardinality(CompleteRows(raw))
            /\ \A p \in 1..Len(out.rows) :
                  /\ (out.rows[p].index + 1) \in CompleteRows(raw)
                  /\ out.rows[p] = raw.rows[out.rows[p].index + 1]
                  /\ \A q \in 1..Len(out.rows) :
                        p < q => out.rows[p].index < out.rows[q].index

\* C11 witness: a row with a missing artist was kept and a row with a missing
\* feature dropped.
C11_Witness ==
    /\ build # NoBuild
    /\ build.clean.raised = "none"
    /\ Len(build.clean.df.rows) < Len(build.raw_df.rows)
    /\ \E p \in 1..Len(build.clean.df.rows) :
          ID_COL_ARTISTS \in build.clean.df.rows[p].na

\* The feature columns the header of the file lacks.
AbsentFeatures == FeatureSet \ csv.columns

\* C12: when the file lacks a named feature column, clean_and_select_features
\* raises the schema error (ValueError) naming exactly the absent columns and
\* returns no table, from_csv raises the same error, and no engine is built.
C12_SchemaErrorAbortsBuild ==
    (build # NoBuild /\ AbsentFeatures # {}) =>
        /\ build.clean.raised = "ValueError"
        /\ build.clean.missing = AbsentFeatures
        /\ build.clean.df = NoTable
        /\ pc = "failed"
        /\ ret.raised = "ValueError"
        /\ self = NoEngine
        /\ call = NoCall

\* C12 witness: construction failed on a file two feature columns short.
C12_Witness ==
    /\ pc = "failed"
    /\ build.clean.raised = "ValueError"
    /\ Cardinality(build.clean.missing) = 2
    /\ self = NoEngine

NeighborsDone == call.op = "query_neighbors"

\* What C13 says of a returned pair of arrays: equal length
\* min(k, fitted neighbor count), non-decreasing distances, distinct indices
\* within 0..rows-1.
NeighborArraysAsClaimed ==
    /\ ret.raised = "none"
    /\ Len(ret.distances) = Min2(call.k, FittedNeighbors)
    /\ Len(ret.indices) = Len(ret.distances)
    /\ \A p, q \in 1..Len(ret.indices) :
          p < q => /\ ret.distances[p] <= ret.distances[q]
                   /\ ret.indices[p] # ret.indices[q]
    /\ \A p \in 1..Len(ret.indices) :
          /\ ret.indices[p] \in 0..(Len(self.df.rows) - 1)
          /\ ret.distances[p] = Distance(self.X_scaled[ret.indices[p] + 1],
                                         call.query_vector)

\* C13 as stated: for every k, query_neighbors returns arrays of length
\* min(k, fitted neighbor count), ascending, indices distinct and in range.
C13_NeighborArraysAnyK ==
    /\ pc = "ready" => self.models.knn.n_neighbors = FittedNeighbors
    /\ NeighborsDone => NeighborArraysAsClaimed

\* C13 amended: the fitted neighbor count is min(requested, rows); for
\* k >= 1 query_neighbors returns arrays of length min(k, fitted neighbor
\* count), ascending, indices distinct and in range; for k <= 0 it raises
\* ValueError.
C13_NeighborArraysPositiveK ==
    /\ pc = "ready" => self.models.knn.n_neighbors = FittedNeighbors
    /\ NeighborsDone =>
          IF call.k >= 1 THEN NeighborArraysAsClaimed
          ELSE ret.raised = "ValueError"

\* C13 witness: fewer neighbors asked for than fitted, and the fitted count
\* capped by the catalog.
C13_Witness ==
    /\ NeighborsDone
    /\ call.k >= 1
    /\ call.k < FittedNeighbors
    /\ FittedNeighbors < fit_args.n_neighbors
    /\ Len(ret.indices) = call.k

SampleDone == call.op = "sample_cluster_tracks"

\* The positions of the catalog rows labelled c.
ClusterRows(c) == {i \in 1..Len(self.df.rows) : self.df.rows[i].mood_cluster = c}

\* sample_cluster_tracks(c, n) returned min(n, m) rows, each a catalog row
\* labelled c, none twice, and raised nothing.
SampleAsClaimed ==
    /\ ret.raised = "none"
    /\ Len(ret.rows) = Min2(call.n, Cardinality(ClusterRows(call.cluster_label)))
    /\ \A p \in 1..Len(ret.rows) :
          /\ ret.rows[p].mood_cluster = call.cluster_label
          /\ (ret.rows[p].index + 1) \in ClusterRows(call.cluster_label)
          /\ ret.rows[p] = self.df.rows[ret.rows[p].index + 1]
          /\ \A q \in 1..Len(ret.rows) : p < q => ret.rows[p].index # ret.rows[q].index

\* The same call made again returns the same rows.
SampleRepeats == (SampleDone /\ SampleDone' /\ call' = call) => ret' = ret

\* C14: sample_cluster_tracks(c, n) returns exactly min(n, m) rows of the m
\* catalog rows labelled c (all m when m < n, none and no error when m = 0),
\* every one labelled c, no catalog row twice, and the same rows when the call
\* is repeated on the same engine.
C14_SampleBound == [](SampleDone => SampleAsClaimed) /\ [][SampleRepeats]_vars

DedupeDone == call.op = "_dedupe_recommendations"

\* C15: _dedupe_recommendations applied, with the same n and the same seed
\* key, to a sequence it returned gives that sequence back: the same rows in
\* the same order.
C15_DedupeIdempotent == DedupeDone => (ret.raised = "none" /\ ret.recs = call.recs)

\* What the query c returns when it runs alone on the given engine.
ResultOf(engine, c) ==
    CASE c.op = "recommend_by_track" ->
            LET r == recommend_by_track(engine, c.track_name, c.n, c.artist_hint, numlib)
            IN  [raised |-> r.raised, seed_row |-> r.seed_row, recs |-> r.recs]
      [] c.op = "recommend_by_mood" ->
            LET r == recommend_by_mood(engine, c.energy, c.valence, c.danceability,
                                       c.n, c.extra_overrides, numlib)
            IN  [raised |-> r.raised, recs |-> r.recs]
      [] c.op = "describe_clusters" ->
            [raised |-> "none", summary |-> describe_clusters(engine)]
      [] c.op = "sample_cluster_tracks" ->
            LET r == sample_cluster_tracks(engine, c.cluster_label, c.n, numlib)
            IN  [raised |-> r.raised, rows |-> r.rows]
      [] OTHER -> NoRet

InQuery(t) == sessions[t].pc # "idle"

\* C16: a session is in a query only on an engine whose load, clean, scale,
\* fit and cluster assignment have all completed; until the last of these
\* steps, and for ever after a failed one, there is no instance and no
\* session is in a query.
C16_InitializationBarrier ==
    /\ [](/\ (\E t \in Sessions : InQuery(t)) =>
               /\ pc = "ready"
               /\ build.op = "assign_clusters"
               /\ build.raised = "none"
               /\ self = Constructed
          /\ pc # "ready" => (self = NoEngine /\ \A t \in Sessions : ~InQuery(t))
          /\ pc = "failed" => build.raised # "none")
    /\ [][pc = "failed" => pc' = "failed"]_vars

\* C16 witness: a session holds the result of a query on the built engine.
C16_Witness ==
    /\ pc = "ready"
    /\ \E t \in Sessions :
          /\ sessions[t].pc = "done"
          /\ sessions[t].call.op = "recommend_by_mood"
          /\ Len(sessions[t].ret.recs) >= 1

\* C17: however the steps of the sessions' queries interleave, the engine
\* stays the one construction returned and every finished query holds the
\* result it returns when run alone on that engine.
C17_LockFreeReads ==
    pc = "ready" =>
        /\ self = Constructed
        /\ \A t \in Sessions :
              sessions[t].pc = "done" =>
                  sessions[t].ret = ResultOf(Constructed, sessions[t].call)

\* C17 witness: a query finished while another session was between two steps
\* of its own query.
C17_Witness ==
    \E t, u \in Sessions :
        /\ t # u
        /\ sessions[t].pc = "done"
        /\ sessions[t].call.op = "recommend_by_track"
        /\ Len(sessions[t].ret.recs) >= 1
        /\ sessions[u].pc \in {"vector", "pool"}
        /\ sessions[u].call.op = "recommend_by_mood"

\* The file has every feature column and no identity column.
FeaturesOnly == FeatureSet \subseteq csv.columns /\ csv.columns \cap IdCols = {}

\* C18: on a file with every feature column and no identity column,
\* construction succeeds whenever it succeeds on the numbers alone (a complete
\* line for every cluster asked for), no recommend_by_mood, recommend_by_track
\* or sample_cluster_tracks call raises, and the rows returned are catalog rows
\* known by their position.
C18_IdentityColumnsOptional ==
    FeaturesOnly =>
        /\ (build # NoBuild /\ Cardinality(CompleteLines) >= Max2(1, fit_args.n_clusters))
               => pc = "ready"
        /\ (pc = "ready"
             /\ call.op \in {"recommend_by_mood", "recommend_by_track",
                              "sample_cluster_tracks"}) =>
               /\ ret.raised = "none"
               /\ LET rows == IF call.op = "sample_cluster_tracks"
                              THEN ret.rows ELSE ret.recs
                  IN  \A p \in 1..Len(rows) :
                        /\ rows[p].index \in 0..(Len(self.df.rows) - 1)
                        /\ \A f \in FeatureSet :
                              rows[p][f] = self.df.rows[rows[p].index + 1][f]

\* The seed row of a track query is among the neighbors the index returned.
SeedAmongNeighbors ==
    \E p \in 1..Len(trace.neighbors) : trace.neighbors[p] = trace.seed_idx

\* The query went as far as its neighbor pool (a track query found its seed).
PoolExamined == MoodDone \/ (TrackDone /\ ret.seed_row # NoRow)

\* C19: whatever n is asked for, the index returns the fitted neighbor count
\* min(fit-time n_neighbors, catalog rows) of rows when max(30, n + 5) is no
\* smaller, and the pool never has more rows than that count:
\* recommend_by_mood returns at most min(n, fitted neighbor count) rows, and
\* recommend_by_track, when the seed row is among the returned neighbors, a
\* pool and a result of at most one row fewer than that count.
C19_PoolCappedAtFit ==
    PoolExamined =>
        /\ Len(trace.neighbors) = Min2(PoolSize(call.n), FittedNeighbors)
        /\ Len(trace.pool) <= FittedNeighbors
        /\ MoodDone => Len(ret.recs) <= Min2(call.n, FittedNeighbors)
        /\ (TrackDone /\ SeedAmongNeighbors) =>
              /\ Len(trace.pool) = Len(trace.neighbors) - 1
              /\ Len(ret.recs) <= FittedNeighbors - 1

\* C19 witness: a track query asked for more rows than the fitted count less
\* the seed could give, and got that many.
C19_Witness ==
    /\ TrackDone
    /\ ret.seed_row # NoRow
    /\ SeedAmongNeighbors
    /\ PoolSize(call.n) > FittedNeighbors
    /\ call.n > FittedNeighbors - 1
    /\ Len(ret.recs) = FittedNeighbors - 1
    /\ Len(ret.recs) >= 1

====
